---- MODULE Spec2Model ----
(***************************************************************************)
(* fix_if.py: a patcher that rewrites `If (F(args) {` to `If (F(args)) {`  *)
(* for eight predicate names F in three fixed files.  Text is a sequence   *)
(* of one-character strings; the regular expressions of the rule list are  *)
(* evaluated character by character, as re.sub evaluates them.             *)
(***************************************************************************)
EXTENDS Integers, Sequences, FiniteSets, TLC

VARIABLES
    fs,       \* the file system: the text each path holds
    orig,     \* the text each path held when the run started
    access,   \* what the environment allows on each path
    linesep,  \* the line separator of the platform (os.linesep)
    pc,       \* the statement the run is at
    idx,      \* the position in `files` of the path being processed
    content,  \* the local `content` of the call in progress
    todo,     \* the rules the loop over `patterns` has not applied yet
    out,      \* the lines written to standard output
    nread,    \* per path, how often it was opened for reading
    nwrite    \* per path, how often it was opened for writing

vars == <<fs, orig, access, linesep, pc, idx, content, todo, out, nread, nwrite>>

-----------------------------------------------------------------------------
(* The literal texts of the rule list.                                     *)

CONTAINS ==
    <<"C","O","N","T","A","I","N","S">>
HAS_KEY ==
    <<"H","A","S","_","K","E","Y">>
STARTS_WITH ==
    <<"S","T","A","R","T","S","_","W","I","T","H">>
REGEX_WILDCARD_MATCH ==
    <<"R","E","G","E","X","_","W","I","L","D","C","A","R","D","_","M","A","T","C","H">>
REGEX_IS_DIGIT ==
    <<"R","E","G","E","X","_","I","S","_","D","I","G","I","T">>
REGEX_IS_ALPHA ==
    <<"R","E","G","E","X","_","I","S","_","A","L","P","H","A">>
REGEX_IS_EMAIL ==
    <<"R","E","G","E","X","_","I","S","_","E","M","A","I","L">>
REGEX_IS_URL ==
    <<"R","E","G","E","X","_","I","S","_","U","R","L">>

\* A variant of the rule list: the rule of REGEX_IS_EMAIL listed twice, that
\* of REGEX_IS_URL missing.
patternsDup ==
    << CONTAINS, HAS_KEY, STARTS_WITH, REGEX_WILDCARD_MATCH,
       REGEX_IS_DIGIT, REGEX_IS_ALPHA, REGEX_IS_EMAIL, REGEX_IS_EMAIL >>

\* The function name of each rule, in the order of the list `patterns`.
patterns ==
    << CONTAINS, HAS_KEY, STARTS_WITH, REGEX_WILDCARD_MATCH,
       REGEX_IS_DIGIT, REGEX_IS_ALPHA, REGEX_IS_EMAIL, REGEX_IS_URL >>

Rules == 1..Len(patterns)

\* `If \(` : the literal text every pattern starts with.
IfOpen == <<"I","f"," ","(">>

\* `(F\(` : the start of group 1 of rule r, the function name and its `(`.
GroupOpen(r) == patterns[r] \o <<"(">>

\* A variant of the class: `.`, every character but a line break.
InClassDot(c) == c # "\n"

\* `[^)]` : the character class of the argument text.
InClass(c) == c # ")"

\* A variant of the pattern's end: `\))`, without the ` \{`.
ClosingNoBrace == <<")">>

\* `\)) \{` : what follows the argument text, the `)` that ends group 1,
\* then a space and `{`.
Closing == <<")"," ","{">>

\* Variants of the template: `if (\1) {` and `If (\1)) {`.
ReplacementLower(g1) == <<"i","f"," ","(">> \o g1 \o <<")"," ","{">>
ReplacementTwo(g1) == <<"I","f"," ","(">> \o g1 \o <<")",")"," ","{">>

\* The replacement template `If (\1) {` filled with the text of group 1.
Replacement(g1) == <<"I","f"," ","(">> \o g1 \o <<")"," ","{">>

-----------------------------------------------------------------------------
(* re.sub(pattern, replacement, content) for one rule.                     *)

LitAt(s, pos, lit) ==
    /\ pos + Len(lit) - 1 <= Len(s)
    /\ s[pos] = lit[1]
    /\ SubSeq(s, pos, pos + Len(lit) - 1) = lit

SetMin(S) == CHOOSE m \in S : \A n \in S : m <= n

\* The number of consecutive characters of the class from position pos on.
ClassRun(s, pos) ==
    LET stops == {i \in pos..Len(s) : ~InClass(s[i])}
    IN  IF stops = {} THEN Len(s) + 1 - pos ELSE SetMin(stops) - pos

SetMax(S) == CHOOSE m \in S : \A n \in S : n <= m

\* The match of rule r that starts at pos: the position just after it, or 0
\* when there is none.  `[^)]+` is greedy and backtracks: of the lengths
\* k >= 1 after which the rest of the pattern matches, the longest is taken.
MatchEnd(s, pos, r) ==
    LET a == pos + Len(IfOpen) + Len(GroupOpen(r))
    IN  IF ~(LitAt(s, pos, IfOpen) /\ LitAt(s, pos + Len(IfOpen), GroupOpen(r)))
        THEN 0
        ELSE LET ks == {k \in 1..ClassRun(s, a) : LitAt(s, a + k, Closing)}
             IN  IF ks = {} THEN 0 ELSE a + SetMax(ks) + Len(Closing)

\* Group 1 of the match over [pos, e): `F(args)`, the match without its
\* leading `If (` and its trailing ` {`.
Group1(s, pos, e) == SubSeq(s, pos + Len(IfOpen), e - Len(Closing))

\* The start of the leftmost match of rule r at or after pos, or 0.
Search(s, pos, r) ==
    LET starts == {p \in pos..Len(s) : MatchEnd(s, p, r) # 0}
    IN  IF starts = {} THEN 0 ELSE SetMin(starts)

\* The one element of a singleton set.
Only(S) == CHOOSE x \in S : TRUE

\* Non-overlapping matches, leftmost first, each replaced; the text between
\* matches is copied.  m is the start of the next match and e its end, each
\* bound once.
RECURSIVE SubFrom(_, _, _)
SubFrom(s, pos, r) ==
    Only({ IF m = 0 THEN SubSeq(s, pos, Len(s))
           ELSE Only({ SubSeq(s, pos, m - 1) \o Replacement(Group1(s, m, e))
                         \o SubFrom(s, e, r) : e \in {MatchEnd(s, m, r)} })
           : m \in {Search(s, pos, r)} })

Sub(r, s) == SubFrom(s, 1, r)

\* The number of replacements Sub(r, s) makes.
RECURSIVE CountFrom(_, _, _)
CountFrom(s, pos, r) ==
    LET m == Search(s, pos, r)
    IN  IF m = 0 THEN 0 ELSE 1 + CountFrom(s, MatchEnd(s, m, r), r)

\* The loop over the rule list, from rule r on: each rule is applied to the
\* text the rules before it left.
RECURSIVE ApplyFrom(_, _)
ApplyFrom(r, s) ==
    IF r > Len(patterns) THEN s ELSE ApplyFrom(r + 1, Sub(r, s))

Transform(s) == ApplyFrom(1, s)

\* The replacements the loop makes, from rule r on.
RECURSIVE CountAllFrom(_, _)
CountAllFrom(r, s) ==
    IF r > Len(patterns) THEN 0
    ELSE CountFrom(s, 1, r) + CountAllFrom(r + 1, Sub(r, s))

-----------------------------------------------------------------------------
(* The driver's path list.                                                 *)

\* A variant of the list: the first path listed again in place of the third.
filesDup ==
    << "stdlib/cli_utils.aether",
       "stdlib/text_template.aether",
       "stdlib/cli_utils.aether" >>

files ==
    << "stdlib/cli_utils.aether",
       "stdlib/text_template.aether",
       "stdlib/regex_utils.aether" >>

Paths == {files[i] : i \in 1..Len(files)}

\* The path of the call in progress.
filepath == files[idx]

\* What the environment allows on a path: a missing or unreadable file
\* fails open(filepath, "r"), an unwritable one fails open(filepath, "w").
Access == {"ok", "unreadable", "unwritable"}

\* os.linesep: "\n" on POSIX, "\r\n" on Windows.
LineSeps == {<<"\n">>, <<"\r","\n">>}

\* A slot that holds no character.
NoChar == ""

IsChar(c) == c # NoChar

\* f.read() of a file opened in text mode with the default newline=None:
\* every "\r\n" and every other "\r" of the file is read as "\n".
ReadText(b) ==
    SelectSeq([i \in 1..Len(b) |->
                  IF b[i] = "\r" THEN "\n"
                  ELSE IF b[i] = "\n" /\ i > 1 /\ b[i - 1] = "\r" THEN NoChar
                  ELSE b[i]],
              IsChar)

\* f.write(text) to a file opened in text mode with the default
\* newline=None: every "\n" is written as the line separator sep, of one
\* or two characters.  Each character of the text has two slots.
WriteText(text, sep) ==
    SelectSeq([j \in 1..(2 * Len(text)) |->
                  IF text[(j + 1) \div 2] = "\n"
                  THEN (IF j % 2 = 1 THEN sep[1]
                        ELSE IF Len(sep) > 1 THEN sep[2] ELSE NoChar)
                  ELSE (IF j % 2 = 1 THEN text[(j + 1) \div 2] ELSE NoChar)],
              IsChar)

-----------------------------------------------------------------------------
(* The texts the files hold when a run starts.                             *)

XY == <<"x",","," ","y">>

\* An argument text that holds a complete nested call.
NESTED == <<"a",","," ","F","O","O","(","b",")">>

NL == <<"\n">>
CR == <<"\r">>

\* The eight predicate names.
PredicateNames ==
    { CONTAINS, HAS_KEY, STARTS_WITH, REGEX_WILDCARD_MATCH,
      REGEX_IS_DIGIT, REGEX_IS_ALPHA, REGEX_IS_EMAIL, REGEX_IS_URL }

\* `If (F(`, the start of a conditional on predicate F.
IfHead(F) == <<"I","f"," ","(">> \o F \o <<"(">>

\* `If (F(A) {` and `If (F(A)) {`.
Defective(F, A) == IfHead(F) \o A \o <<")"," ","{">>
Balanced(F, A) == IfHead(F) \o A \o <<")",")"," ","{">>

\* Three lines: a defective conditional of each of two predicates and a
\* correct line between them.
EndToEnd ==
    Defective(HAS_KEY, XY) \o NL \o Balanced(CONTAINS, XY) \o NL
        \o Defective(REGEX_IS_URL, XY)

\* The most pieces a built text is put together from.
MaxPieces == 3

Pieces ==
    {IfHead(F) : F \in PredicateNames} \cup {XY, NESTED, <<")"," ","{">>, NL, CR}

RECURSIVE Flatten(_)
Flatten(ps) ==
    IF ps = <<>> THEN <<>> ELSE ps[1] \o Flatten(SubSeq(ps, 2, Len(ps)))

\* Every text of at most MaxPieces pieces.
Built == {Flatten(ps) : ps \in UNION {[1..k -> Pieces] : k \in 0..MaxPieces}}

\* Texts of more pieces than Built reaches.
Scenarios ==
    { EndToEnd,
      Balanced(STARTS_WITH, XY),
      Defective(REGEX_WILDCARD_MATCH, XY) \o NL \o XY,
      XY \o NL \o Defective(REGEX_IS_DIGIT, XY) \o NL,
      Defective(CONTAINS, <<"a",","," ","F","O","O","(","b">>),
      Defective(CONTAINS, NESTED) \o NL \o Defective(CONTAINS, XY),
      IfHead(HAS_KEY) \o Defective(CONTAINS, XY),
      IfHead(REGEX_IS_ALPHA) \o XY \o NL
          \o Defective(REGEX_IS_EMAIL, XY) \o NL \o XY }

Inputs == Built \cup Scenarios

\* The files of a whole run.
Examples ==
    { EndToEnd,
      Defective(HAS_KEY, XY) \o CR \o NL \o XY,
      Balanced(REGEX_IS_URL, XY) }

-----------------------------------------------------------------------------
(* The run: the driver's loop and the statements of fix_if_statements.     *)

Init ==
    /\ fs \in [Paths -> Examples]
    /\ orig = fs
    /\ access \in [Paths -> Access]
    /\ linesep \in LineSeps
    /\ pc = "for"
    /\ idx = 0
    /\ content = <<>>
    /\ todo = {}
    /\ out = <<>>
    /\ nread = [p \in Paths |-> 0]
    /\ nwrite = [p \in Paths |-> 0]

\* for f in files: the next path, and the call of fix_if_statements on it.
ForNext ==
    /\ pc = "for"
    /\ idx < Len(files)
    /\ idx' = idx + 1
    /\ pc' = "read"
    /\ UNCHANGED <<fs, orig, access, linesep, content, todo, out, nread, nwrite>>

\* The list is exhausted: the run ends normally.
ForEnd ==
    /\ pc = "for"
    /\ idx = Len(files)
    /\ pc' = "done"
    /\ UNCHANGED <<fs, orig, access, linesep, idx, content, todo, out, nread, nwrite>>

\* with open(filepath, "r") as f: content = f.read()
Read ==
    /\ pc = "read"
    /\ access[filepath] # "unreadable"
    /\ content' = ReadText(fs[filepath])
    /\ nread' = [nread EXCEPT ![filepath] = @ + 1]
    /\ todo' = Rules
    /\ pc' = "sub"
    /\ UNCHANGED <<fs, orig, access, linesep, idx, out, nwrite>>

\* A variant of the failure: the exception is swallowed and the loop goes on.
ReadFailContinue ==
    /\ pc = "read"
    /\ access[filepath] = "unreadable"
    /\ pc' = "for"
    /\ UNCHANGED <<fs, orig, access, linesep, idx, content, todo, out, nread, nwrite>>

\* open(filepath, "r") raises; nothing catches it.
ReadFail ==
    /\ pc = "read"
    /\ access[filepath] = "unreadable"
    /\ pc' = "error"
    /\ UNCHANGED <<fs, orig, access, linesep, idx, content, todo, out, nread, nwrite>>

\* for pattern, replacement in patterns: content = re.sub(...): one pass
\* of the loop, on the first rule of the list not applied yet.
Substitute ==
    /\ pc = "sub"
    /\ content' = Sub(SetMin(todo), content)
    /\ todo' = todo \ {SetMin(todo)}
    /\ pc' = IF todo = {SetMin(todo)} THEN "open" ELSE "sub"
    /\ UNCHANGED <<fs, orig, access, linesep, idx, out, nread, nwrite>>

\* A variant of the open: the file keeps its content until it is written.
OpenWriteKeep ==
    /\ pc = "open"
    /\ access[filepath] # "unwritable"
    /\ nwrite' = [nwrite EXCEPT ![filepath] = @ + 1]
    /\ pc' = "write"
    /\ UNCHANGED <<fs, orig, access, linesep, idx, content, todo, out, nread>>

\* open(filepath, "w"): the file is truncated when it is opened.
OpenWrite ==
    /\ pc = "open"
    /\ access[filepath] # "unwritable"
    /\ fs' = [fs EXCEPT ![filepath] = <<>>]
    /\ nwrite' = [nwrite EXCEPT ![filepath] = @ + 1]
    /\ pc' = "write"
    /\ UNCHANGED <<orig, access, linesep, idx, content, todo, out, nread>>

\* open(filepath, "w") raises; nothing catches it.
OpenWriteFail ==
    /\ pc = "open"
    /\ access[filepath] = "unwritable"
    /\ pc' = "error"
    /\ UNCHANGED <<fs, orig, access, linesep, idx, content, todo, out, nread, nwrite>>

\* f.write(content), and the file is closed.
Write ==
    /\ pc = "write"
    /\ fs' = [fs EXCEPT ![filepath] = WriteText(content, linesep)]
    /\ pc' = "print"
    /\ UNCHANGED <<orig, access, linesep, idx, content, todo, out, nread, nwrite>>

\* f.write(content) or the close raises (the device is full, say): some
\* prefix of the content, shorter than the content, has reached the file.
WriteFail ==
    /\ pc = "write"
    /\ LET data == WriteText(content, linesep)
       IN  \E k \in 0..(Len(data) - 1) :
               fs' = [fs EXCEPT ![filepath] = SubSeq(data, 1, k)]
    /\ pc' = "error"
    /\ UNCHANGED <<orig, access, linesep, idx, content, todo, out, nread, nwrite>>

\* A variant of the report: only a file whose content changed is reported.
PrintIfChanged ==
    /\ pc = "print"
    /\ out' = IF content # ReadText(orig[filepath])
              THEN Append(out, "Fixed " \o filepath) ELSE out
    /\ pc' = "for"
    /\ UNCHANGED <<fs, orig, access, linesep, idx, content, todo, nread, nwrite>>

\* print(f"Fixed {filepath}"), and the call returns.
PrintFixed ==
    /\ pc = "print"
    /\ out' = Append(out, "Fixed " \o filepath)
    /\ pc' = "for"
    /\ UNCHANGED <<fs, orig, access, linesep, idx, content, todo, nread, nwrite>>

Next ==
    \/ ForNext
    \/ ForEnd
    \/ Read
    \/ ReadFail
    \/ Substitute
    \/ OpenWrite
    \/ OpenWriteFail
    \/ Write
    \/ WriteFail
    \/ PrintFixed

Spec == Init /\ [][Next]_vars

\* The run is sequential: it takes its next step as long as it has one.
FairSpec == Spec /\ WF_vars(Next)

-----------------------------------------------------------------------------
(* One call of fix_if_statements on an accessible file, for every text of  *)
(* Inputs.                                                                 *)

PatchInit ==
    /\ \E c \in Inputs :
           fs = [p \in Paths |-> IF p = files[1] THEN c ELSE <<>>]
    /\ orig = fs
    /\ access = [p \in Paths |-> "ok"]
    /\ linesep \in LineSeps
    /\ pc = "read"
    /\ idx = 1
    /\ content = <<>>
    /\ todo = {}
    /\ out = <<>>
    /\ nread = [p \in Paths |-> 0]
    /\ nwrite = [p \in Paths |-> 0]

PatchNext ==
    \/ Read
    \/ Substitute
    \/ OpenWrite
    \/ Write
    \/ PrintFixed

PatchSpec == PatchInit /\ [][PatchNext]_vars

-----------------------------------------------------------------------------
(* The same call with the loop over `patterns` taking the rules in any     *)
(* order: what a reordering of the list would do.                          *)

\* The longest argument text of the texts below.
MaxArgLen == 2

ArgTexts == {SubSeq(XY, 1, k) : k \in 1..MaxArgLen}

\* Two conditionals, of any two predicates: one after the other, one inside
\* the argument text of the other, one reaching over a line break into the
\* other, and a balanced one before a defective one.
PermInputs ==
    UNION { { Defective(F, A) \o NL \o Defective(G, A),
              IfHead(F) \o Defective(G, A),
              IfHead(F) \o A \o NL \o IfHead(G) \o <<")"," ","{">>,
              Balanced(F, A) \o Defective(G, A) } :
            <<F, G, A>> \in PredicateNames \X PredicateNames \X ArgTexts }

PermInit ==
    /\ \E c \in PermInputs :
           fs = [p \in Paths |-> IF p = files[1] THEN c ELSE <<>>]
    /\ orig = fs
    /\ access = [p \in Paths |-> "ok"]
    /\ linesep = <<"\n">>
    /\ pc = "read"
    /\ idx = 1
    /\ content = <<>>
    /\ todo = {}
    /\ out = <<>>
    /\ nread = [p \in Paths |-> 0]
    /\ nwrite = [p \in Paths |-> 0]

\* One pass of the loop, on any rule not applied yet.
SubstituteAny ==
    /\ pc = "sub"
    /\ \E r \in todo :
           /\ content' = Sub(r, content)
           /\ todo' = todo \ {r}
           /\ pc' = IF todo = {r} THEN "open" ELSE "sub"
    /\ UNCHANGED <<fs, orig, access, linesep, idx, out, nread, nwrite>>

PermNext ==
    \/ Read
    \/ SubstituteAny

PermSpec == PermInit /\ [][PermNext]_vars

-----------------------------------------------------------------------------
(* What the properties below speak of.                                     *)

\* The call has substituted and not yet opened the file for writing.
Substituted == pc = "open"

\* The call has written the file and not yet reported it.
Written == pc = "print"

\* The text the call read.
InputText == ReadText(orig[filepath])

\* The lines of a text: what stands between its "\n".
LineCuts(s) ==
    LET nl == {i \in 1..Len(s) : s[i] = "\n"}
    IN  [k \in 0..(Cardinality(nl) + 1) |->
            IF k = 0 THEN 0
            ELSE IF k = Cardinality(nl) + 1 THEN Len(s) + 1
            ELSE CHOOSE i \in nl : Cardinality({j \in nl : j < i}) = k - 1]

NumLines(s) == Cardinality({i \in 1..Len(s) : s[i] = "\n"}) + 1

Line(s, n) == SubSeq(s, LineCuts(s)[n - 1] + 1, LineCuts(s)[n] - 1)

\* The lines of s, by line number.
Lines(s) ==
    LET cuts == LineCuts(s)
    IN  [n \in 1..NumLines(s) |-> SubSeq(s, cuts[n - 1] + 1, cuts[n] - 1)]

\* The positions of each line of s, by line number.
LineSpans(s) ==
    LET cuts == LineCuts(s)
    IN  [n \in 1..NumLines(s) |-> (cuts[n - 1] + 1)..(cuts[n] - 1)]

\* Position i of s holds the `)` of a conditional on one of the eight
\* predicates that is missing its own `)`: ` {` follows it, and `If (F(`
\* stands somewhere before it with a non-empty text free of `)` between.
CallClosesAt(s, i) ==
    /\ i + 2 <= Len(s)
    /\ s[i] = ")" /\ s[i + 1] = " " /\ s[i + 2] = "{"
    /\ \E F \in PredicateNames : \E p \in 1..i :
          /\ s[p] = "I"
          /\ p + Len(IfHead(F)) < i
          /\ SubSeq(s, p, p + Len(IfHead(F)) - 1) = IfHead(F)
          /\ \A j \in (p + Len(IfHead(F)))..(i - 1) : s[j] # ")"

SetMaxOf(S) == CHOOSE m \in S : \A n \in S : n <= m

\* s with a `)` put in after each position of P.
RECURSIVE InsertAfter(_, _)
InsertAfter(s, P) ==
    IF P = {} THEN s
    ELSE LET i == SetMaxOf(P)
         IN  InsertAfter(SubSeq(s, 1, i) \o <<")">> \o SubSeq(s, i + 1, Len(s)),
                         P \ {i})

\* s with one `)` put in directly after the `)` of every such conditional.
InsertParens(s) == InsertAfter(s, {i \in 1..Len(s) : CallClosesAt(s, i)})

\* l is `If (F(A) {` for a non-empty A free of `)`.
IsDefective(l, F) ==
    /\ Len(l) >= Len(IfHead(F)) + 4
    /\ l = Defective(F, SubSeq(l, Len(IfHead(F)) + 1, Len(l) - 3))
    /\ \A j \in (Len(IfHead(F)) + 1)..(Len(l) - 3) : l[j] # ")"

\* l is `If (F(A)) {` for a non-empty A free of `)`.
IsDoublyClosed(l, F) ==
    /\ Len(l) >= Len(IfHead(F)) + 5
    /\ l = Balanced(F, SubSeq(l, Len(IfHead(F)) + 1, Len(l) - 4))
    /\ \A j \in (Len(IfHead(F)) + 1)..(Len(l) - 4) : l[j] # ")"

\* What a whole run leaves in a file that held c, on a platform whose line
\* separator is sep.
PatchedText ==
    [c \in Examples |->
        [sep \in LineSeps |-> WriteText(Transform(ReadText(c)), sep)]]

Patched(p) == PatchedText[orig[p]][linesep]

\* The calls that have returned.
Completed == IF pc \in {"for", "done"} THEN idx ELSE idx - 1

-----------------------------------------------------------------------------
(* The properties.                                                         *)

\* C1: a line `If (F(A) {` of the file, F one of the eight predicate names
\* and A non-empty and free of `)`, is the line `If (F(A)) {` once
\* fix_if_statements has written the file.
C1_DefectiveLineRepaired ==
    Written =>
        LET before == Lines(InputText)
            after  == Lines(ReadText(fs[filepath]))
        IN  \A n \in DOMAIN before : \A F \in PredicateNames :
                IsDefective(before[n], F) =>
                    /\ n \in DOMAIN after
                    /\ after[n]
                         = Balanced(F, SubSeq(before[n], Len(IfHead(F)) + 1,
                                              Len(before[n]) - 3))

C1_Witness ==
    /\ Written
    /\ orig[filepath] = Defective(REGEX_IS_URL, XY)
    /\ fs[filepath] = Balanced(REGEX_IS_URL, XY)

\* C2: the eight substitutions applied to the content they produced give
\* that content again.
C2_Idempotent ==
    Substituted => Transform(content) = content

C2_Witness ==
    /\ Substituted
    /\ InputText = EndToEnd
    /\ content # InputText

\* C3, as claimed: a line of the input file that holds no match when taken
\* on its own is the line at the same position of the output file, whatever
\* the lines around it are.
C3_AsClaimed ==
    Written =>
        LET before == Lines(InputText)
            after  == Lines(ReadText(fs[filepath]))
        IN  \A n \in DOMAIN before :
                (\A i \in 1..Len(before[n]) : ~CallClosesAt(before[n], i))
                => /\ n \in DOMAIN after
                   /\ after[n] = before[n]

\* C3, amended: the file has as many lines after the call as before (a
\* line ending at "\n", "\r\n" or "\r"), and a line in which no match of
\* the whole text ends has the same text at the same position.
C3_UnmatchedLinesKept ==
    Written =>
        LET before == Lines(InputText)
            spans  == LineSpans(InputText)
            after  == Lines(ReadText(fs[filepath]))
        IN  /\ DOMAIN after = DOMAIN before
            /\ \A n \in DOMAIN before :
                   (\A i \in spans[n] : ~CallClosesAt(InputText, i))
                   => after[n] = before[n]

C3_Witness ==
    /\ Written
    /\ orig[filepath]
         = IfHead(REGEX_IS_ALPHA) \o XY \o NL
             \o Defective(REGEX_IS_EMAIL, XY) \o NL \o XY
    /\ Line(fs[filepath], 1) = Line(orig[filepath], 1)
    /\ Line(fs[filepath], 2) # Line(orig[filepath], 2)
    /\ Line(fs[filepath], 3) = Line(orig[filepath], 3)

\* C4: a later path is opened only when every path before it was
\* accessible and holds its patched content; and when a call has failed,
\* the paths before it hold their patched content, the paths after it were
\* never opened and hold their original content, and the run takes no
\* further step.
C4_StopsAtFirstFailure ==
    /\ \A j \in 1..Len(files) : \A k \in (j + 1)..Len(files) :
           nread[files[k]] + nwrite[files[k]] > 0
           => /\ access[files[j]] = "ok"
              /\ fs[files[j]] = Patched(files[j])
    /\ pc = "error" =>
           /\ \A j \in 1..(idx - 1) : fs[files[j]] = Patched(files[j])
           /\ \A k \in (idx + 1)..Len(files) :
                  /\ fs[files[k]] = orig[files[k]]
                  /\ nread[files[k]] = 0
                  /\ nwrite[files[k]] = 0
           /\ ~ENABLED Next

C4_Witness ==
    /\ pc = "error"
    /\ idx = 2
    /\ fs[files[1]] # orig[files[1]]
    /\ fs[files[1]] = Patched(files[1])
    /\ fs[files[3]] = orig[files[3]]

\* C5: standard output holds one line `Fixed <path>` for each call that
\* has returned, in the order of the path list, each path with a line
\* holds its patched content, and a call that failed or has not yet
\* written has no line.
C5_StdoutLines ==
    /\ out = SubSeq(<< "Fixed stdlib/cli_utils.aether",
                       "Fixed stdlib/text_template.aether",
                       "Fixed stdlib/regex_utils.aether" >>, 1, Completed)
    /\ \A j \in 1..Len(out) :
           /\ nwrite[files[j]] = 1
           /\ fs[files[j]] = Patched(files[j])

\* A file no substitution changed is reported all the same.
C5_Witness ==
    /\ pc = "done"
    /\ Len(out) = 3
    /\ \E j \in 1..3 : fs[files[j]] = orig[files[j]]

\* C6: every run ends, normally or with the error; no path is opened for
\* reading or for writing more than once, so at most three files are
\* rewritten; and a run that ends normally has processed all three paths.
C6_Terminates ==
    /\ <>(pc \in {"done", "error"})
    /\ [](/\ \A p \in Paths : nread[p] <= 1 /\ nwrite[p] <= 1
          /\ nwrite[files[1]] + nwrite[files[2]] + nwrite[files[3]] <= 3
          /\ pc = "done" =>
                 \A j \in 1..3 : nread[files[j]] = 1 /\ nwrite[files[j]] = 1)

C6_Witness ==
    /\ pc = "done"
    /\ \A p \in Paths : nread[p] = 1 /\ nwrite[p] = 1

\* C7, as claimed: the line `If (CONTAINS(a, FOO(b)) {` is written back as
\* `If (CONTAINS(a, FOO(b))) {`.
C7_AsClaimed ==
    (Written /\ orig[filepath] = Defective(CONTAINS, NESTED))
    => fs[filepath] = Balanced(CONTAINS, NESTED)

\* C7, amended: a nested call is matched only up to its first `)` and only
\* when ` {` follows that `)`.  `If (CONTAINS(a, FOO(b) {` is written back
\* as `If (CONTAINS(a, FOO(b)) {`; a line `If (F(A)) {` with A free of `)`,
\* such as `If (CONTAINS(a, FOO(b)) {`, is written back as it is.
C7_NestedCall ==
    Written =>
        /\ orig[filepath] = Defective(CONTAINS, <<"a",","," ","F","O","O","(","b">>)
           => fs[filepath] = Defective(CONTAINS, NESTED)
        /\ LET before == Lines(InputText)
               after  == Lines(ReadText(fs[filepath]))
           IN  \A n \in DOMAIN before : \A F \in PredicateNames :
                   IsDoublyClosed(before[n], F)
                   => /\ n \in DOMAIN after
                      /\ after[n] = before[n]

C7_Witness ==
    /\ Written
    /\ orig[filepath] = Defective(CONTAINS, NESTED)
    /\ fs[filepath] = orig[filepath]

\* C8: the substituted content is the content read with one `)` put in
\* directly after the `)` of every matched call and nothing else changed,
\* and it is longer than the content read by the number of replacements.
C8_OnlyInsertsParens ==
    Substituted =>
        /\ content = InsertParens(InputText)
        /\ Len(content) = Len(InputText) + CountAllFrom(1, InputText)

C8_Witness ==
    /\ Substituted
    /\ InputText = EndToEnd
    /\ Len(content) = Len(InputText) + 2

\* C9: the file is empty from the moment it is opened for writing until
\* the content is written; a failed write leaves a prefix of the new
\* content, shorter than it, and nothing restores the original; a failed
\* read leaves the original content.
C9_NoRollback ==
    /\ pc = "write" => fs[filepath] = <<>>
    /\ (pc = "error" /\ nread[filepath] = 0) => fs[filepath] = orig[filepath]
    /\ (pc = "error" /\ nwrite[filepath] = 1) =>
           LET data == WriteText(content, linesep)
           IN  /\ Len(fs[filepath]) < Len(data)
               /\ fs[filepath] = SubSeq(data, 1, Len(fs[filepath]))

\* The file holds neither its original nor its patched content.
C9_Witness ==
    /\ pc = "error"
    /\ nwrite[filepath] = 1
    /\ fs[filepath] # orig[filepath]
    /\ fs[filepath] # Patched(filepath)

====
